---- MODULE Spec2Model ----
(***************************************************************************)
(* A model of project_tools/combine_code.py: the directory walk with its   *)
(* pruning rules, the per-file classification and extraction, the archive  *)
(* stream with its counters, and the notebook extractor process_notebook.  *)
(*                                                                         *)
(* Strings are sequences of one-character strings, so that suffix tests,   *)
(* strip(), join and the code-point order used by sorted() are computed    *)
(* rather than assumed.  A path is a sequence of names, the root is <<>>.  *)
(***************************************************************************)
EXTENDS Naturals, Integers, Sequences, FiniteSets, TLC

VARIABLES
    tree,                  \* the directory tree under project_root
    output_filename,       \* the --output argument, a string
    pc,                    \* position of the run
    stack,                 \* directories os.walk has still to yield (top first)
    current_path,          \* directory whose files are being processed
    pending,               \* sorted(filenames) of current_path not yet handled
    archive,               \* the writes accepted by outfile, in order
    flushed,               \* how many of them have reached the file on disk
    files_processed_count,
    files_skipped_count,
    faults,                \* output-stream failures raised so far
    summary,               \* the "--- Summary ---" lines were logged
    exitCode,              \* exit status of the process, -1 while running
    visited,               \* history: the directories os.walk has yielded, in order
    rerun,                 \* history: the output file existed when it was opened
    nb,                    \* argument of process_notebook (parsed JSON or "bad")
    nbOut                  \* its return value

vars == <<tree, output_filename, pc, stack, current_path, pending, archive,
          flushed, files_processed_count, files_skipped_count, faults,
          summary, exitCode, visited, rerun, nb, nbOut>>

-----------------------------------------------------------------------------
(* Bounds of the model *)

MaxEntries == 3
MaxFaults == 1
MaxCells == 3

-----------------------------------------------------------------------------
(* Characters and strings *)

Ascii ==
    <<" ", "!", "QUOTE", "#", "$", "%", "&", "'", "(", ")", "*", "+", ",", "-", ".", "/", "0",
      "1", "2", "3", "4", "5", "6", "7", "8", "9", ":", ";", "<", "=", ">", "?", "@", "A",
      "B", "C", "D", "E", "F", "G", "H", "I", "J", "K", "L", "M", "N", "O", "P", "Q", "R",
      "S", "T", "U", "V", "W", "X", "Y", "Z", "[", "BACKSLASH", "]", "^", "_", "BACKTICK", "a", "b", "c",
      "d", "e", "f", "g", "h", "i", "j", "k", "l", "m", "n", "o", "p", "q", "r", "s", "t",
      "u", "v", "w", "x", "y", "z", "{", "|", "}", "~">>

\* (the three characters that cannot be written in a string literal here are named)
Controls == {"\t", "\n", "\f", "\r"}

Chars == {Ascii[i] : i \in 1..Len(Ascii)} \cup Controls

\* ord(c): the code point, which is what str comparison goes by
Ord ==
    [c \in Chars |->
        CASE c = "\t" -> 9
          [] c = "\n" -> 10
          [] c = "\f" -> 12
          [] c = "\r" -> 13
          [] OTHER -> 31 + (CHOOSE i \in 1..Len(Ascii) : Ascii[i] = c)]

\* str.isspace() on the characters of the model
Whitespace == {" ", "\t", "\n", "\f", "\r"}

\* a < b for two strings (lexicographic by code point)
RECURSIVE StrLess(_, _)
StrLess(a, b) ==
    IF b = <<>> THEN FALSE
    ELSE IF a = <<>> THEN TRUE
    ELSE IF Head(a) = Head(b) THEN StrLess(Tail(a), Tail(b))
    ELSE Ord[Head(a)] < Ord[Head(b)]

\* s.endswith(p)
EndsWith(s, p) ==
    /\ Len(s) >= Len(p)
    /\ SubSeq(s, Len(s) - Len(p) + 1, Len(s)) = p

\* s.lower(), ASCII letters
LowerChar(c) ==
    IF Ord[c] >= 65 /\ Ord[c] <= 90 THEN Ascii[Ord[c] + 32 - 31] ELSE c

Lower(s) == [i \in 1..Len(s) |-> LowerChar(s[i])]

\* s.strip()
RECURSIVE LStrip(_)
LStrip(s) ==
    IF s # <<>> /\ Head(s) \in Whitespace THEN LStrip(Tail(s)) ELSE s

RECURSIVE RStrip(_)
RStrip(s) ==
    IF s # <<>> /\ s[Len(s)] \in Whitespace
    THEN RStrip(SubSeq(s, 1, Len(s) - 1))
    ELSE s

Strip(s) == RStrip(LStrip(s))

\* sep.join(parts)
RECURSIVE Join(_, _)
Join(sep, parts) ==
    IF parts = <<>> THEN <<>>
    ELSE IF Len(parts) = 1 THEN parts[1]
    ELSE parts[1] \o sep \o Join(sep, Tail(parts))

\* str(n) for a natural number
RECURSIVE Str(_)
Str(n) ==
    IF n < 10 THEN <<Ascii[n + 17]>>
    ELSE Str(n \div 10) \o <<Ascii[(n % 10) + 17]>>

\* the components of a relative path string, as the Path division keeps them
RECURSIVE SplitPath(_, _)
SplitPath(s, cur) ==
    IF s = <<>> THEN (IF cur = <<>> THEN <<>> ELSE <<cur>>)
    ELSE IF Head(s) = "/"
         THEN (IF cur = <<>> THEN <<>> ELSE <<cur>>) \o SplitPath(Tail(s), <<>>)
         ELSE SplitPath(Tail(s), Append(cur, Head(s)))

-----------------------------------------------------------------------------
(* Configuration of combine_code.py *)

OUTPUT_FILENAME ==
    <<"f", "u", "l", "l", "_", "p", "r", "o", "j", "e", "c", "t", "_", "s", "o", "u", "r", "c", "e", ".", "t", "x", "t">>

EXCLUDE_DIRS_ANYWHERE ==
    { <<".", "g", "i", "t">>,
      <<"_", "_", "p", "y", "c", "a", "c", "h", "e", "_", "_">>,
      <<".", "p", "y", "t", "e", "s", "t", "_", "c", "a", "c", "h", "e">>,
      <<"c", "a", "c", "h", "e">>,
      <<"o", "u", "t", "p", "u", "t", "s">>,
      <<".", "v", "s", "c", "o", "d", "e">>,
      <<".", "i", "d", "e", "a">>,
      <<"v", "e", "n", "v">>,
      <<".", "v", "e", "n", "v">>,
      <<"e", "n", "v">>,
      <<"b", "u", "i", "l", "d">>,
      <<"d", "i", "s", "t">>,
      <<"r", "e", "n", "v">>,
      <<"n", "o", "d", "e", "_", "m", "o", "d", "u", "l", "e", "s">> }

EXCLUDE_DIRS_ROOT_ONLY ==
    { <<"d", "a", "t", "a">> }

EXCLUDE_DIR_PATTERNS ==
    { <<".", "e", "g", "g", "-", "i", "n", "f", "o">> }

EXCLUDE_EXTENSIONS ==
    { <<".", "p", "y", "c">>,
      <<".", "p", "y", "o">>,
      <<".", "s", "o">>,
      <<".", "d", "l", "l">>,
      <<".", "e", "x", "e">>,
      <<".", "p", "n", "g">>,
      <<".", "j", "p", "g">>,
      <<".", "j", "p", "e", "g">>,
      <<".", "g", "i", "f">>,
      <<".", "i", "c", "o">>,
      <<".", "s", "v", "g">>,
      <<".", "p", "a", "r", "q", "u", "e", "t">>,
      <<".", "a", "r", "r", "o", "w">>,
      <<".", "f", "e", "a", "t", "h", "e", "r">>,
      <<".", "c", "s", "v">>,
      <<".", "z", "i", "p">>,
      <<".", "g", "z">>,
      <<".", "t", "a", "r">>,
      <<".", "r", "a", "r">>,
      <<".", "7", "z">>,
      <<".", "d", "b">>,
      <<".", "s", "q", "l", "i", "t", "e", "3">>,
      <<".", "p", "d", "f">>,
      <<".", "d", "o", "c", "x">>,
      <<".", "x", "l", "s", "x">>,
      <<".", "s", "w", "p">>,
      <<".", "s", "w", "o">> }

EXCLUDE_FILES ==
    { OUTPUT_FILENAME,
      <<".", "D", "S", "_", "S", "t", "o", "r", "e">>,
      <<"T", "h", "u", "m", "b", "s", ".", "d", "b">>,
      <<"c", "e", "l", "e", "r", "y", "b", "e", "a", "t", "-", "s", "c", "h", "e", "d", "u", "l", "e">>,
      <<".", "e", "n", "v">> }

\* the two header writes of the archive
Header1 ==
    <<"-", "-", "-", " ", "P", "r", "o", "j", "e", "c", "t", " ", "S", "o", "u", "r", "c",
      "e", " ", "C", "o", "d", "e", " ", "A", "r", "c", "h", "i", "v", "e", " ", "-", "-",
      "-", "\n", "\n">>

Header2 ==
    <<"T", "h", "i", "s", " ", "f", "i", "l", "e", " ", "c", "o", "n", "t", "a", "i", "n",
      "s", " ", "t", "h", "e", " ", "c", "o", "n", "c", "a", "t", "e", "n", "a", "t", "e",
      "d", " ", "s", "o", "u", "r", "c", "e", " ", "c", "o", "d", "e", " ", "o", "f", " ",
      "t", "h", "e", " ", "p", "r", "o", "j", "e", "c", "t", ",", " ", "w", "i", "t", "h",
      " ", "e", "a", "c", "h", " ", "f", "i", "l", "e", " ", "w", "r", "a", "p", "p", "e",
      "d", " ", "i", "n", " ", "t", "a", "g", "s", " ", "i", "n", "d", "i", "c", "a", "t",
      "i", "n", "g", " ", "i", "t", "s", " ", "r", "e", "l", "a", "t", "i", "v", "e", " ",
      "p", "a", "t", "h", ".", "\n", "\n">>

-----------------------------------------------------------------------------
(* process_notebook *)

\* A parsed notebook: valid = json.load succeeded and gave the expected shape;
\* cells = notebook["cells"].  A cell is [cell_type, source]; source is
\* [list |-> TRUE, val |-> <<fragment, ...>>] or [list |-> FALSE, val |-> string].
BadNotebook == [valid |-> FALSE, cells |-> <<>>]

\* The content of a file of the tree.  kind:
\*   "text"    readable, no null byte in its first 1024 bytes; text is its content
\*   "binary"  readable, a null byte in its first 1024 bytes
\*   "noperm"  open() raises PermissionError
\*   "ioerr"   open() and the first read succeed, reading it all raises OSError
\*   "self"    the file outfile is writing: its content is what was flushed
\* json is what json.load makes of it.
TextFile(s) == [kind |-> "text", text |-> s, json |-> BadNotebook]

NotebookFile(cells) ==
    [kind |-> "text", text |-> <<>>, json |-> [valid |-> TRUE, cells |-> cells]]

OtherFile(kind) == [kind |-> kind, text |-> <<>>, json |-> BadNotebook]

\* the value None / a returned string
None == [some |-> FALSE, text |-> <<>>]

Some(s) == [some |-> TRUE, text |-> s]

CodeLabel ==
    <<"#", " ", "-", "-", "-", " ", "C", "o", "d", "e", " ", "C", "e", "l", "l", " ">>

MarkdownLabel ==
    <<"#", " ", "-", "-", "-", " ", "M", "a", "r", "k", "d", "o", "w", "n", " ",
      "C", "e", "l", "l", " ">>

LabelEnd == <<" ", "-", "-", "-", "\n">>

\* lines 104-108: "".join(source_list) if it is a list, else str(source_list)
JoinedSource(cell) ==
    IF cell.source.list THEN Join(<<>>, cell.source.val) ELSE cell.source.val

\* the label numbered with the 0-based index of the cell
CellPart_ZeroBased(cell, i) ==
    LET source == JoinedSource(cell) IN
    IF Strip(source) = <<>> THEN <<>>
    ELSE IF cell.cell_type = "code"
         THEN << CodeLabel \o Str(i) \o LabelEnd \o source \o <<"\n">> >>
    ELSE IF cell.cell_type = "markdown"
         THEN << MarkdownLabel \o Str(i) \o LabelEnd \o source \o <<"\n">> >>
    ELSE <<>>

\* line 114 or 116: the part appended for cell number i (0-based), if any
CellPart(cell, i) ==
    LET source == JoinedSource(cell) IN
    IF Strip(source) = <<>> THEN <<>>
    ELSE IF cell.cell_type = "code"
         THEN << CodeLabel \o Str(i + 1) \o LabelEnd \o source \o <<"\n">> >>
    ELSE IF cell.cell_type = "markdown"
         THEN << MarkdownLabel \o Str(i + 1) \o LabelEnd \o source \o <<"\n">> >>
    ELSE <<>>

\* lines 98-116: the loop over enumerate(cells), from index i on
RECURSIVE ContentParts(_, _)
ContentParts(cells, i) ==
    IF i >= Len(cells) THEN <<>>
    ELSE CellPart(cells[i + 1], i) \o ContentParts(cells, i + 1)

\* lines 94-121; file is the content of the file at filepath.  Failing to open
\* or read it, or to parse it as a notebook, is caught and gives None.
process_notebook(file) ==
    IF file.kind \in {"noperm", "ioerr"} \/ ~file.json.valid THEN None
    ELSE Some(Join(<<"\n">>, ContentParts(file.json.cells, 0)))

-----------------------------------------------------------------------------
(* Files and paths *)

\* Path.suffix of a file name
RECURSIVE RFindDot(_, _)
RFindDot(name, i) ==
    IF i = 0 THEN 0
    ELSE IF name[i] = "." THEN i
    ELSE RFindDot(name, i - 1)

Suffix(name) ==
    LET i == RFindDot(name, Len(name)) IN
    IF i > 1 /\ i < Len(name) THEN SubSeq(name, i, Len(name)) ELSE <<>>

IpynbSuffix == <<".", "i", "p", "y", "n", "b">>

\* the directories directly under d, and the files in d
ChildDirs(t, d) ==
    {p \in t.dirs : Len(p) = Len(d) + 1 /\ SubSeq(p, 1, Len(d)) = d}

FilesIn(t, d) == {f \in t.files : f.dir = d}

FileAt(t, d, name) == CHOOSE f \in t.files : f.dir = d /\ f.name = name

\* line 194: filepath.relative_to(project_root).as_posix()
RelPath(d, name) == Join(<<"/">>, Append(d, name))

\* line 146: project_root / output_filename, as directory and file name
OutputParts == SplitPath(output_filename, <<>>)

OutputDir == SubSeq(OutputParts, 1, Len(OutputParts) - 1)

OutputName == OutputParts[Len(OutputParts)]

\* the text of the writes w (a sequence of [line, text])
RECURSIVE Flatten(_)
Flatten(w) == IF w = <<>> THEN <<>> ELSE Head(w).text \o Flatten(Tail(w))

-----------------------------------------------------------------------------
(* sorted() and list.sort() on names *)

RECURSIVE Insert(_, _)
Insert(x, s) ==
    IF s = <<>> THEN <<x>>
    ELSE IF StrLess(x, Head(s)) THEN <<x>> \o s
    ELSE <<Head(s)>> \o Insert(x, Tail(s))

RECURSIVE Sorted(_)
Sorted(s) == IF s = <<>> THEN <<>> ELSE Insert(Head(s), Sorted(Tail(s)))

\* the orders in which scandir may list the names of a set
Listings(S) ==
    {f \in [1..Cardinality(S) -> S] : \A i, j \in DOMAIN f : i # j => f[i] # f[j]}

-----------------------------------------------------------------------------
(* The pruning rules of the walk, lines 172-184 *)

\* Rule 1 testing the wrong set
Rule1_WrongSet(d) == d \in EXCLUDE_DIRS_ROOT_ONLY

Rule1(d) == d \in EXCLUDE_DIRS_ANYWHERE

\* Rule 2 without the test that the walk is at the root
Rule2_Anywhere(d, cur) == d \in EXCLUDE_DIRS_ROOT_ONLY

Rule2(d, cur) == d \in EXCLUDE_DIRS_ROOT_ONLY /\ cur = <<>>

Rule3(d) == \E p \in EXCLUDE_DIR_PATTERNS : EndsWith(d, p)

Pruned(d, cur) == Rule1(d) \/ Rule2(d, cur) \/ Rule3(d)

\* dirnames left as os.walk gave it (never cleared), then sorted
KeptDirs_NotCleared(original_dirs, cur) == Sorted(original_dirs)

\* lines 169-186: dirnames rebuilt from original_dirs, then sorted
KeptDirs(original_dirs, cur) ==
    Sorted(SelectSeq(original_dirs, LAMBDA d : ~Pruned(d, cur)))

\* lines 153-154
exclude_files == EXCLUDE_FILES \cup {output_filename}

\* the files handled in the order scandir lists them
SortedFiles_Unsorted(filenames) == filenames

\* line 189: the files of a directory in the order they are handled
SortedFiles(filenames) == Sorted(filenames)

-----------------------------------------------------------------------------
(* Classification and extraction of one file, lines 197-220 *)

\* lines 124-136; name is the file name, file its content
is_likely_text_file(name, file) ==
    IF Lower(Suffix(name)) \in EXCLUDE_EXTENSIONS THEN FALSE
    ELSE IF file.kind = "noperm" THEN FALSE
    ELSE file.kind # "binary"

\* lines 209-212: infile.read(); selfText is what the archive file holds on disk
ReadRaises(file) == file.kind = "ioerr"

ReadText(file, selfText) ==
    IF file.kind = "self" THEN Some(selfText) ELSE Some(file.text)

\* lines 197-220: what the try block has made of the file when it reaches
\* line 222: "skip" (step 3), "raise" (an exception), or "content"
Extract(name, file, selfText) ==
    IF Lower(Suffix(name)) = IpynbSuffix
    THEN [step |-> "content", content |-> process_notebook(file)]
    ELSE IF is_likely_text_file(name, file)
         THEN IF ReadRaises(file)
              THEN [step |-> "raise", content |-> None]
              ELSE [step |-> "content", content |-> ReadText(file, selfText)]
         ELSE [step |-> "skip", content |-> None]

\* line 223: if content and content.strip()
HasContent(content) ==
    content.some /\ content.text # <<>> /\ Strip(content.text) # <<>>

\* lines 224-226: the three writes of a block
OpenTag(rel) == <<"<">> \o rel \o <<">", "\n">>

CloseTag(rel) == <<"\n", "<", "/">> \o rel \o <<">", "\n", "\n">>

BlockWrites(rel, content) ==
    << [kind |-> "open", text |-> OpenTag(rel)],
       [kind |-> "body", text |-> Strip(content.text)],
       [kind |-> "close", text |-> CloseTag(rel)] >>

\* lines 158-162: the two writes of the header
HeaderWrites ==
    << [kind |-> "header", text |-> Header1],
       [kind |-> "header", text |-> Header2] >>

\* the exception of one file leaving the loop, to the handlers of lines 247-250
FileErrorPc_Abort == "failed"

\* lines 234-238: where the run stands after an exception in the per-file try
FileErrorPc == "walk"

\* lines 219, 229, 235: the skip counter after a file that gave no block
SkipCount(n) == n + 1

\* line 227
ProcessedCount(n) == n + 1

-----------------------------------------------------------------------------
(* The inputs of a run *)

DirNames ==
    { <<".", "g", "i", "t">>,
      <<"d", "a", "t", "a">>,
      <<"a">>,
      <<"B">>,
      <<"p", ".", "e", "g", "g", "-", "i", "n", "f", "o">> }

Hello == <<"h", "e", "l", "l", "o">>

Blank == <<" ", "\n">>

ExampleCells ==
    << [cell_type |-> "code",
        source |-> [list |-> FALSE, val |-> <<"x", "=", "1">>]],
       [cell_type |-> "markdown",
        source |-> [list |-> FALSE, val |-> <<>>]],
       [cell_type |-> "code",
        source |-> [list |-> TRUE,
                    val |-> << <<"p", "r", "i", "n", "t", "(">>, <<"x", ")">> >>]] >>

B_txt == <<"b", ".", "t", "x", "t">>

Z_txt == <<"Z", ".", "t", "x", "t">>

N_ipynb == <<"n", ".", "I", "P", "Y", "N", "B">>

Out_txt == <<"o", "u", "t", ".", "t", "x", "t">>

A_out_txt == <<"a", "/">> \o Out_txt

\* the archive an earlier run over an empty tree has left
PriorArchive == TextFile(Flatten(HeaderWrites))

\* the files a directory may hold: the names, and the contents under each name
FileNames == {B_txt, Z_txt, N_ipynb, Out_txt}

FileData(name) ==
    IF name = B_txt
    THEN {TextFile(Hello), TextFile(Blank), OtherFile("binary"),
          OtherFile("noperm"), OtherFile("ioerr")}
    ELSE IF name = N_ipynb THEN {NotebookFile(ExampleCells), TextFile(Hello)}
    ELSE IF name = Out_txt THEN {PriorArchive}
    ELSE {TextFile(Hello)}

OutputNames == {Out_txt, A_out_txt}

\* the sets of at most n directories, closed under parent
RECURSIVE DirSets(_)
DirSets(n) ==
    IF n = 0 THEN {{}}
    ELSE LET P == DirSets(n - 1) IN
         P \cup UNION {{ds \cup {Append(p, d)} : p \in ds \cup {<<>>}, d \in DirNames} :
                        ds \in P}

\* the sets of at most n places (directory and name) for a file
RECURSIVE PlaceSets(_, _)
PlaceSets(dirs, n) ==
    IF n = 0 THEN {{}}
    ELSE LET P == PlaceSets(dirs, n - 1) IN
         P \cup {ps \cup {[dir |-> p, name |-> f]} : ps \in P, p \in dirs, f \in FileNames}

\* the sets of files at the places ps, each with one of the contents of its name
RECURSIVE FilesAt(_)
FilesAt(ps) ==
    IF ps = {} THEN {{}}
    ELSE LET s == CHOOSE x \in ps : TRUE IN
         {fs \cup {[dir |-> s.dir, name |-> s.name, data |-> d]} :
            fs \in FilesAt(ps \ {s}), d \in FileData(s.name)}

\* the trees of at most MaxEntries entries (directories and files)
Trees ==
    UNION {UNION {{[dirs |-> ds, files |-> fs] : fs \in FilesAt(ps)} :
                    ps \in PlaceSets(ds \cup {<<>>}, MaxEntries - Cardinality(ds))} :
           ds \in {x \in DirSets(MaxEntries) : Cardinality(x) <= MaxEntries}}

\* the tree of the end-to-end scenario: a/b.txt, .git/ignored.txt, data/x.txt
ScenarioTree ==
    [dirs |-> { << <<"a">> >>, << <<".", "g", "i", "t">> >>, << <<"d", "a", "t", "a">> >> },
     files |->
        { [dir |-> << <<"a">> >>, name |-> B_txt, data |-> TextFile(Hello)],
          [dir |-> << <<".", "g", "i", "t">> >>,
           name |-> <<"i", "g", "n", "o", "r", "e", "d", ".", "t", "x", "t">>,
           data |-> TextFile(<<"s", "e", "c", "r", "e", "t">>)],
          [dir |-> << <<"d", "a", "t", "a">> >>,
           name |-> <<"x", ".", "t", "x", "t">>,
           data |-> TextFile(<<"d", "a", "t", "a">>)] }]

Inputs ==
    {[tree |-> t, out |-> o] : t \in Trees, o \in OutputNames}
    \cup {[tree |-> ScenarioTree, out |-> OUTPUT_FILENAME]}

\* the notebooks process_notebook is applied to
CellChoices ==
    {[cell_type |-> t, source |-> s] :
        t \in {"code", "markdown", "raw"},
        s \in { [list |-> FALSE, val |-> <<>>],
                [list |-> FALSE, val |-> <<" ">>],
                [list |-> FALSE, val |-> <<"x", "=", "1">>],
                [list |-> TRUE, val |-> <<>>],
                [list |-> TRUE, val |-> << <<"\n">>, <<>> >>],
                [list |-> TRUE, val |-> << <<"p", "r", "i", "n", "t", "(">>, <<"x", ")">> >>] }}

RECURSIVE CellLists(_)
CellLists(n) ==
    IF n = 0 THEN {<<>>}
    ELSE LET P == CellLists(n - 1) IN
         P \cup {Append(cs, c) : cs \in {x \in P : Len(x) = n - 1}, c \in CellChoices}

NotebookInputs ==
    {NotebookFile(cs) : cs \in CellLists(MaxCells) \cup {ExampleCells}}
    \cup {TextFile(Hello), OtherFile("noperm")}

-----------------------------------------------------------------------------
(* main() and combine_project_files *)

Init ==
    /\ \E i \in Inputs : tree = i.tree /\ output_filename = i.out
    /\ pc = "start"
    /\ stack = <<>>
    /\ current_path = <<>>
    /\ pending = <<>>
    /\ archive = <<>>
    /\ flushed = 0
    /\ files_processed_count = 0
    /\ files_skipped_count = 0
    /\ faults = 0
    /\ summary = FALSE
    /\ exitCode = -1
    /\ visited = <<>>
    /\ rerun = FALSE
    /\ nb = OtherFile("noperm")
    /\ nbOut = None

\* whether the model may raise another output-stream failure
MayFail == faults < MaxFaults

FailChoices == IF MayFail THEN {FALSE, TRUE} ELSE {FALSE}

\* line 157: open(output_filepath, "w"), creating or truncating the file;
\* IOError when its directory does not exist or the open fails
Open ==
    /\ pc = "start"
    /\ \E fail \in FailChoices :
        IF fail \/ OutputDir \notin tree.dirs \cup {<<>>}
        THEN /\ pc' = "failed"
             /\ faults' = faults + 1
             /\ UNCHANGED <<tree, rerun>>
        ELSE /\ pc' = "header"
             /\ rerun' = (\E f \in tree.files : f.dir = OutputDir /\ f.name = OutputName)
             /\ tree' = [tree EXCEPT !.files =
                   {f \in @ : ~(f.dir = OutputDir /\ f.name = OutputName)}
                   \cup {[dir |-> OutputDir, name |-> OutputName,
                          data |-> OtherFile("self")]}]
             /\ UNCHANGED faults
    /\ UNCHANGED <<output_filename, stack, current_path, pending, archive, flushed,
                   files_processed_count, files_skipped_count, summary, exitCode,
                   visited, nb, nbOut>>

\* lines 158-162: the header; k is the write that raises (0: none)
WriteHeader ==
    /\ pc = "header"
    /\ \E k \in 0..(IF MayFail THEN 2 ELSE 0) :
        /\ archive' = archive \o SubSeq(HeaderWrites, 1, IF k = 0 THEN 2 ELSE k - 1)
        /\ IF k = 0
           THEN pc' = "walk" /\ stack' = << <<>> >> /\ UNCHANGED faults
           ELSE pc' = "failed" /\ faults' = faults + 1 /\ UNCHANGED stack
    /\ UNCHANGED <<tree, output_filename, current_path, pending, flushed,
                   files_processed_count, files_skipped_count, summary, exitCode,
                   visited, rerun, nb, nbOut>>

Last(p) == p[Len(p)]

\* lines 164-186: os.walk yields the next directory; its child directories are
\* pruned and sorted before the walk goes on, its files sorted (line 189)
VisitDir ==
    /\ pc = "walk"
    /\ pending = <<>>
    /\ stack # <<>>
    /\ LET top == Head(stack) IN
       \E dirnames \in Listings({Last(p) : p \in ChildDirs(tree, top)}),
          filenames \in Listings({f.name : f \in FilesIn(tree, top)}) :
            /\ current_path' = top
            /\ visited' = Append(visited, top)
            /\ stack' = [i \in 1..Len(KeptDirs(dirnames, top)) |->
                            Append(top, KeptDirs(dirnames, top)[i])] \o Tail(stack)
            /\ pending' = SortedFiles(filenames)
    /\ UNCHANGED <<tree, output_filename, pc, archive, flushed, files_processed_count,
                   files_skipped_count, faults, summary, exitCode, rerun, nb, nbOut>>

\* what the archive file holds on disk
OnDisk == Flatten(SubSeq(archive, 1, flushed))

\* lines 189-238: one iteration of the loop over sorted(filenames);
\* k is the write of the block that raises (0: none)
ProcessFile ==
    /\ pc = "walk"
    /\ pending # <<>>
    /\ pending' = Tail(pending)
    /\ LET filename == Head(pending)
           file == FileAt(tree, current_path, filename).data
           rel == RelPath(current_path, filename)
           got == Extract(filename, file, OnDisk)
       IN
       IF filename \in exclude_files
       THEN UNCHANGED <<pc, archive, flushed, files_processed_count,
                        files_skipped_count, faults>>
       ELSE IF got.step = "raise"
       THEN /\ files_skipped_count' = SkipCount(files_skipped_count)
            /\ pc' = FileErrorPc
            /\ UNCHANGED <<archive, flushed, files_processed_count, faults>>
       ELSE IF got.step = "skip" \/ ~HasContent(got.content)
       THEN /\ files_skipped_count' = SkipCount(files_skipped_count)
            /\ UNCHANGED <<pc, archive, flushed, files_processed_count, faults>>
       ELSE \E k \in 0..(IF MayFail THEN 3 ELSE 0) :
            /\ archive' = archive \o SubSeq(BlockWrites(rel, got.content), 1,
                                            IF k = 0 THEN 3 ELSE k - 1)
            /\ \E n \in {flushed, Len(archive')} : flushed' = n
            /\ IF k = 0
               THEN /\ files_processed_count' = ProcessedCount(files_processed_count)
                    /\ UNCHANGED <<pc, files_skipped_count, faults>>
               ELSE /\ files_skipped_count' = SkipCount(files_skipped_count)
                    /\ faults' = faults + 1
                    /\ pc' = FileErrorPc
                    /\ UNCHANGED files_processed_count
    /\ UNCHANGED <<tree, output_filename, stack, current_path, summary, exitCode,
                   visited, rerun, nb, nbOut>>

\* the end of the with block (the stream is flushed and closed, which may raise
\* IOError) and lines 240-245, the summary
Close ==
    /\ pc = "walk"
    /\ pending = <<>>
    /\ stack = <<>>
    /\ \E fail \in FailChoices :
        IF fail
        THEN pc' = "failed" /\ faults' = faults + 1 /\ UNCHANGED <<flushed, summary>>
        ELSE pc' = "done" /\ flushed' = Len(archive) /\ summary' = TRUE
             /\ UNCHANGED faults
    /\ UNCHANGED <<tree, output_filename, stack, current_path, pending, archive,
                   files_processed_count, files_skipped_count, exitCode, visited,
                   rerun, nb, nbOut>>

\* lines 247-250 and 280: the error was logged, or the summary was; main returns
\* and the interpreter exits with status 0
Exit ==
    /\ pc \in {"done", "failed"}
    /\ pc' = "exited"
    /\ exitCode' = 0
    /\ UNCHANGED <<tree, output_filename, stack, current_path, pending, archive,
                   flushed, files_processed_count, files_skipped_count, faults,
                   summary, visited, rerun, nb, nbOut>>

Next == Open \/ WriteHeader \/ VisitDir \/ ProcessFile \/ Close \/ Exit

Spec == Init /\ [][Next]_vars

-----------------------------------------------------------------------------
(* process_notebook on its own *)

NotebookInit ==
    /\ nb \in NotebookInputs
    /\ nbOut = None
    /\ pc = "call"
    /\ tree = [dirs |-> {}, files |-> {}]
    /\ output_filename = OUTPUT_FILENAME
    /\ stack = <<>>
    /\ current_path = <<>>
    /\ pending = <<>>
    /\ archive = <<>>
    /\ flushed = 0
    /\ files_processed_count = 0
    /\ files_skipped_count = 0
    /\ faults = 0
    /\ summary = FALSE
    /\ exitCode = -1
    /\ visited = <<>>
    /\ rerun = FALSE

CallProcessNotebook ==
    /\ pc = "call"
    /\ pc' = "return"
    /\ nbOut' = process_notebook(nb)
    /\ UNCHANGED <<tree, output_filename, stack, current_path, pending, archive,
                   flushed, files_processed_count, files_skipped_count, faults,
                   summary, exitCode, visited, rerun, nb>>

NotebookNext == CallProcessNotebook

NotebookSpec == NotebookInit /\ [][NotebookNext]_vars

-----------------------------------------------------------------------------
(* Notions the properties are stated in *)

VisitedSet == {visited[i] : i \in 1..Len(visited)}

Parent(p) == SubSeq(p, 1, Len(p) - 1)

OpenWrites == SelectSeq(archive, LAMBDA w : w.kind = "open")

WrittenTexts == {archive[i].text : i \in 1..Len(archive)}

\* a name excluded wherever it is: in the excluded-anywhere set, or ending with
\* an excluded suffix
ExcludedAnywhere(d) ==
    \/ d \in EXCLUDE_DIRS_ANYWHERE
    \/ \E p \in EXCLUDE_DIR_PATTERNS : EndsWith(d, p)

UnderExcluded(p) == \E i \in 1..Len(p) : ExcludedAnywhere(p[i])

\* a plain readable text file with content, under a name no rule excludes
PlainHello(f) == f.data = TextFile(Hello) /\ f.name \in {B_txt, Z_txt}

\* the tree with the output file created in it
Opened(t, dir, name) ==
    [t EXCEPT !.files = @ \cup {[dir |-> dir, name |-> name, data |-> OtherFile("self")]}]

-----------------------------------------------------------------------------
(* C1 *)

\* C1: no directory whose name is in the excluded-anywhere set, or ends with an
\* excluded suffix, is ever descended into, at any depth: the walk never yields
\* a directory on whose path such a name lies, and the archive never receives
\* a tag of a file under one.
C1_NeverDescendsExcluded ==
    /\ \A i \in 1..Len(visited) : ~UnderExcluded(visited[i])
    /\ \A i \in 1..Len(stack) : ~UnderExcluded(stack[i])
    /\ ~UnderExcluded(current_path)
    /\ \A f \in tree.files :
        UnderExcluded(f.dir) =>
            /\ OpenTag(RelPath(f.dir, f.name)) \notin WrittenTexts
            /\ CloseTag(RelPath(f.dir, f.name)) \notin WrittenTexts

\* a finished run over a tree with an archivable file in an excluded directory
\* two levels down, whose parent directory was walked
C1_Witness ==
    /\ pc = "done"
    /\ \E f \in tree.files :
        /\ Len(f.dir) = 2
        /\ ExcludedAnywhere(f.dir[2])
        /\ Parent(f.dir) \in VisitedSet
        /\ PlainHello(f)

-----------------------------------------------------------------------------
(* C2 *)

\* C2: a directory whose name is in the excluded-at-root-only set is walked
\* exactly when it is not a direct child of the root, its parent was walked and
\* no excluded-anywhere rule applies to its name; nothing under such a child of
\* the root is walked, and the files of a nested one are archived.
C2_RootOnlyExclusion ==
    /\ \A i \in 1..Len(visited) :
        visited[i] # <<>> => visited[i][1] \notin EXCLUDE_DIRS_ROOT_ONLY
    /\ pc = "done" =>
        \A p \in tree.dirs :
            Last(p) \in EXCLUDE_DIRS_ROOT_ONLY =>
                /\ p \in VisitedSet <=>
                      (Len(p) > 1 /\ Parent(p) \in VisitedSet /\ ~ExcludedAnywhere(Last(p)))
                /\ \A f \in tree.files :
                      (f.dir = p /\ p \in VisitedSet /\ PlainHello(f) /\ faults = 0) =>
                          OpenTag(RelPath(f.dir, f.name)) \in WrittenTexts

\* a finished run that walked a nested directory with a root-only name and
\* archived a file of it
C2_Witness ==
    /\ pc = "done"
    /\ \E f \in tree.files :
        /\ Len(f.dir) = 2
        /\ Last(f.dir) \in EXCLUDE_DIRS_ROOT_ONLY
        /\ f.dir \in VisitedSet
        /\ OpenTag(RelPath(f.dir, f.name)) \in WrittenTexts

-----------------------------------------------------------------------------
(* C3 *)

\* C3: in a run that finds the output file of an earlier run with the same
\* output filename, no block is written for that file, whatever the filename.
C3_OwnOutputNeverIncluded ==
    rerun => OpenTag(RelPath(OutputDir, OutputName)) \notin WrittenTexts

-----------------------------------------------------------------------------
(* C4 *)

\* f comes before g in the pre-order of the tree: the files of a directory in
\* ascending name order, then its subdirectories in ascending name order
RECURSIVE CommonPrefix(_, _)
CommonPrefix(p, q) ==
    IF p = <<>> \/ q = <<>> \/ Head(p) # Head(q) THEN 0
    ELSE 1 + CommonPrefix(Tail(p), Tail(q))

PathBefore(f, g) ==
    LET k == CommonPrefix(f.dir, g.dir) IN
    IF f.dir = g.dir THEN StrLess(f.name, g.name)
    ELSE IF Len(f.dir) = k THEN TRUE
    ELSE IF Len(g.dir) = k THEN FALSE
    ELSE StrLess(f.dir[k + 1], g.dir[k + 1])

\* directory p is walked before directory q in that order
DirBefore(p, q) ==
    LET k == CommonPrefix(p, q) IN
    IF p = q THEN FALSE
    ELSE IF Len(p) = k THEN TRUE
    ELSE IF Len(q) = k THEN FALSE
    ELSE StrLess(p[k + 1], q[k + 1])

\* the directory is walked: no rule prunes a name on its path
Retained(p) == \A i \in 1..Len(p) : ~Pruned(p[i], SubSeq(p, 1, i - 1))

\* the file gives a block when it is handled
Emits(f) ==
    /\ f.name \notin exclude_files
    /\ Extract(f.name, f.data, <<>>).step = "content"
    /\ HasContent(Extract(f.name, f.data, <<>>).content)

\* the file of the tree an opening tag names
FileOf(w) == CHOOSE f \in tree.files : OpenTag(RelPath(f.dir, f.name)) = w.text

\* C4: the blocks are written in the pre-order of the tree (a directory's files
\* in ascending name order, then its retained subdirectories in ascending name
\* order, recursively) and the directories are walked in that order, at every
\* point of every run; when a run completes without an output failure the
\* blocks are exactly those of the files of the retained tree that have
\* content.  The sequence is thus a function of the tree alone.  (The archive's
\* own file, when its name does not exclude it, may or may not have content
\* when it is read.)
C4_BlocksInPreOrder ==
    /\ \A i, j \in 1..Len(visited) : i < j => DirBefore(visited[i], visited[j])
    /\ \A i \in 1..Len(OpenWrites) :
        \E f \in tree.files : OpenTag(RelPath(f.dir, f.name)) = OpenWrites[i].text
    /\ \A i, j \in 1..Len(OpenWrites) :
        i < j => PathBefore(FileOf(OpenWrites[i]), FileOf(OpenWrites[j]))
    /\ (pc = "done" /\ faults = 0) =>
        LET E == {f \in tree.files :
                    f.data.kind # "self" /\ Retained(f.dir) /\ Emits(f)}
            S == {f \in tree.files :
                    f.data.kind = "self" /\ Retained(f.dir) /\ f.name \notin exclude_files}
        IN {FileOf(OpenWrites[i]) : i \in 1..Len(OpenWrites)} \in {E, E \cup S}

\* a completed run that wrote blocks of two files in two directories
C4_Witness ==
    /\ pc = "done"
    /\ faults = 0
    /\ Len(OpenWrites) = 2
    /\ \E f, g \in tree.files :
        /\ f.dir # g.dir
        /\ OpenWrites[1].text = OpenTag(RelPath(f.dir, f.name))
        /\ OpenWrites[2].text = OpenTag(RelPath(g.dir, g.name))

-----------------------------------------------------------------------------
(* C5 *)

\* C5: a failure to open the output stream or to write to it is fatal: once one
\* has occurred the run is aborted, without a summary.
C5_OutputFailureIsFatal ==
    faults > 0 => (pc \in {"failed", "exited"} /\ ~summary)

-----------------------------------------------------------------------------
(* C6 *)

\* C6: the process ends with a non-zero status exactly when the run was
\* aborted by an output-stream failure (it did not reach its summary).
C6_ErrorStatusIffAborted ==
    pc = "exited" => ((exitCode # 0) <=> ~summary)

-----------------------------------------------------------------------------
(* C7 *)

ScenarioRun ==
    /\ tree = Opened(ScenarioTree, <<>>, OUTPUT_FILENAME)
    /\ output_filename = OUTPUT_FILENAME
    /\ pc = "done"
    /\ faults = 0

ScenarioBlock ==
    << [kind |-> "open", text |-> <<"<", "a", "/", "b", ".", "t", "x", "t", ">", "\n">>],
       [kind |-> "body", text |-> <<"h", "e", "l", "l", "o">>],
       [kind |-> "close",
        text |-> <<"\n", "<", "/", "a", "/", "b", ".", "t", "x", "t", ">", "\n", "\n">>] >>

\* C7 as amended: in the scenario (a/b.txt "hello", .git/ignored.txt,
\* data/x.txt, no failures) the archive is the header and the one block of
\* a/b.txt; filesProcessed = 1 and filesSkipped = 0, because the files under
\* the pruned directories are never visited and so never counted.
C7_ScenarioAmended ==
    ScenarioRun =>
        /\ archive = HeaderWrites \o ScenarioBlock
        /\ files_processed_count = 1
        /\ files_skipped_count = 0

\* C7 as claimed: the same, with filesSkipped >= 2
C7_ScenarioAsClaimed ==
    ScenarioRun =>
        /\ archive = HeaderWrites \o ScenarioBlock
        /\ files_processed_count = 1
        /\ files_skipped_count >= 2

C7_Witness == ScenarioRun /\ Len(visited) = 2

-----------------------------------------------------------------------------
(* C8 *)

\* C8: at every point of the run filesProcessed is the number of opening tags
\* in the archive, and every opening tag is followed by the content and the
\* closing tag of its block.
C8_CounterMatchesBlocks ==
    /\ files_processed_count = Len(OpenWrites)
    /\ \A i \in 1..Len(archive) :
        archive[i].kind = "open" =>
            /\ i + 2 <= Len(archive)
            /\ archive[i + 1].kind = "body"
            /\ archive[i + 2].kind = "close"

-----------------------------------------------------------------------------
(* C9 *)

\* the cell gives a block: code or markdown, and a source that is not blank
Qualifies(cell) ==
    /\ cell.cell_type \in {"code", "markdown"}
    /\ \E i \in 1..Len(JoinedSource(cell)) : JoinedSource(cell)[i] \notin Whitespace

Positions == <<"1", "2", "3", "4", "5", "6", "7", "8", "9">>

\* the block of the cell at 1-based position i
LabelledBlock(cell, i) ==
    (IF cell.cell_type = "code" THEN CodeLabel ELSE MarkdownLabel)
    \o <<Positions[i]>> \o LabelEnd \o JoinedSource(cell) \o <<"\n">>

ExampleText ==
    <<"#", " ", "-", "-", "-", " ", "C", "o", "d", "e", " ", "C", "e", "l", "l", " ",
      "1", " ", "-", "-", "-", "\n", "x", "=", "1", "\n", "\n",
      "#", " ", "-", "-", "-", " ", "C", "o", "d", "e", " ", "C", "e", "l", "l", " ",
      "3", " ", "-", "-", "-", "\n", "p", "r", "i", "n", "t", "(", "x", ")", "\n">>

\* C9: process_notebook returns, for a notebook that parses, the blocks of the
\* cells that qualify, in cell order, each labelled with the 1-based position of
\* its cell in the whole list and joined by a newline; other cells give nothing
\* and do not fail the extraction; the example gives Code Cell 1 and Code Cell 3.
C9_NotebookBlocks ==
    (pc = "return" /\ nb.json.valid /\ nb.kind = "text") =>
        LET cells == nb.json.cells
            Q == {i \in 1..Len(cells) : Qualifies(cells[i])}
            Kth(k) == CHOOSE i \in Q : Cardinality({j \in Q : j < i}) = k - 1
        IN /\ nbOut.some
           /\ nbOut.text =
                Join(<<"\n">>, [k \in 1..Cardinality(Q) |-> LabelledBlock(cells[Kth(k)], Kth(k))])
           /\ cells = ExampleCells => nbOut.text = ExampleText

\* process_notebook has returned for the example, and for a notebook whose
\* first cell gives nothing
C9_Witness ==
    /\ pc = "return"
    /\ nbOut.some
    /\ nb.json.valid
    /\ Len(nb.json.cells) = 3
    /\ ~Qualifies(nb.json.cells[1])
    /\ Qualifies(nb.json.cells[2])
    /\ nb.json.cells[3].cell_type = "raw"

-----------------------------------------------------------------------------
(* C10 *)

\* the next file to handle fails on its own: its sniff fails, reading it
\* fails, or it is a notebook that cannot be opened or parsed
PerFileFailure ==
    /\ pc = "walk"
    /\ pending # <<>>
    /\ Head(pending) \notin exclude_files
    /\ LET name == Head(pending)
           file == FileAt(tree, current_path, name).data
       IN IF Lower(Suffix(name)) = IpynbSuffix
          THEN file.kind \in {"noperm", "ioerr"} \/ ~file.json.valid
          ELSE /\ Lower(Suffix(name)) \notin EXCLUDE_EXTENSIONS
               /\ file.kind \in {"noperm", "ioerr"}

\* C10: a per-file failure does not abort the run: handling the file adds one
\* to filesSkipped and nothing to the archive or to filesProcessed, and leaves
\* the rest of the traversal (the files and directories still to come) as it
\* was; a run without output-stream failure ends with its summary.
C10_PerFileFailureIsLocal ==
    /\ [][PerFileFailure =>
            /\ pc' = "walk"
            /\ files_skipped_count' = files_skipped_count + 1
            /\ files_processed_count' = files_processed_count
            /\ archive' = archive
            /\ pending' = Tail(pending)
            /\ stack' = stack
            /\ tree' = tree]_vars
    /\ [](pc = "exited" /\ faults = 0 => summary)

\* a completed run in which a file that failed to read was followed by a file
\* that was archived
C10_Witness ==
    /\ pc = "done"
    /\ faults = 0
    /\ files_skipped_count = 1
    /\ files_processed_count = 1
    /\ \E f, g \in tree.files :
        /\ f.dir = g.dir
        /\ f.name = B_txt
        /\ f.data.kind = "ioerr"
        /\ g.name = N_ipynb
        /\ OpenTag(RelPath(g.dir, g.name)) \in WrittenTexts

====
